---- MODULE Spec2Model ----
(***************************************************************************)
(* Model of the VMC middleware protocol engine: the command queue store    *)
(* (database.py), the frame encoder and the poll loop with its response    *)
(* parser (serial_controller.py).                                          *)
(***************************************************************************)
EXTENDS Integers, Sequences, FiniteSets, TLC

\* ------------------------------------------------------------------ bounds
\* Largest number of rows the request surface inserts into command_queue.
MaxCmds == 2
\* Largest number of dispatches, over all commands, that see no ack.
MaxMissed == 6

\* --------------------------------------------------------------- constants
CMD_POLL == 65
CMD_ACK == 66
CMD_DISPENSE == 3
CMD_SELECTION_CHECK == 2
CMD_DISPENSE_STATUS == 4
CMD_MONEY_NOTICE == 33
CMD_CHECK_SELECTION == 1
CMD_REPORT_PRODUCT == 17
CMD_MACHINE_STATUS == 82
CMD_GENERIC_RETURN == 113
CMD_SET_PRICE == 18
CMD_INFO_SYNC == 49
CMD_QUERY_STATUS == 81
MAX_RETRIES == 5
PACK_NO_MODULUS == 255
FIRST_PACK_NO == 1
\* Python's None / SQL NULL for the integer-valued fields.
NULL == -1

STX == <<250, 251>>

\* ------------------------------------------------------------------- state
VARIABLES
    command_queue,          \* table command_queue; a row's id is its index
    current_local_pack_no,  \* VMCController.current_local_pack_no
    pending_action_id,      \* VMCController.pending_action_id
    pending_action_type,    \* VMCController.pending_action_type
    pc,                     \* position of run(): "connect" | "read" | "ack" |
                            \* "crashed"
    next_cmd,               \* run()'s local next_cmd (row read by get_next_command)
    tx,                     \* bytes of the last ser.write
    rx,                     \* history: the last frame read, and whether it was parsed
    wire,                   \* history: per command id, the pack numbers sent
    missed,                 \* history: per command id, dispatches without ack
    prev_pack_no,           \* history: pack number before the last advance
    e2e,                    \* history: progress along the dispense scenario
    ser,                    \* VMCController.ser: "closed" | "open" | "lost"
    products,               \* table products; one row per selection_id
    event_log,              \* table event_log: the events of frames no branch handles
    vmc_status,             \* table vmc_status; one row per key
    parsing,                \* parse_vmc_data on a machine-status frame, under way
    wait,                   \* a request blocked in wait_for_command_result
    codec                   \* a call of build_packet / read_packet on its own

vars == <<command_queue, current_local_pack_no, pending_action_id,
          pending_action_type, pc, next_cmd, tx, rx, wire, missed,
          prev_pack_no, e2e, ser, products, event_log, vmc_status, parsing,
          wait, codec>>

\* --------------------------------------------------------- byte arithmetic
RECURSIVE Xor(_, _)
Xor(a, b) ==
    IF a = 0 THEN b
    ELSE IF b = 0 THEN a
    ELSE ((a + b) % 2) + 2 * Xor(a \div 2, b \div 2)

RECURSIVE calculate_checksum(_)
calculate_checksum(data) ==
    IF data = <<>> THEN 0
    ELSE Xor(calculate_checksum(SubSeq(data, 1, Len(data) - 1)), data[Len(data)])

\* Mutant: the length byte counts the payload without the pack number.
build_packet_length_without_pack_no(cmd_byte, payload, pack_no) ==
    LET final_payload == IF cmd_byte \notin {CMD_POLL, CMD_ACK}
                         THEN <<pack_no>> \o payload ELSE <<>>
        header == STX \o <<cmd_byte, Len(payload)>>
        data_to_sum == header \o final_payload
    IN  data_to_sum \o <<calculate_checksum(data_to_sum)>>

\* build_packet(cmd_byte, payload, use_pack_no=pack_no); run() passes
\* use_pack_no for every command, and the pack number is not read for
\* CMD_POLL and CMD_ACK.
build_packet(cmd_byte, payload, pack_no) ==
    LET final_payload == IF cmd_byte \notin {CMD_POLL, CMD_ACK}
                         THEN <<pack_no>> \o payload ELSE <<>>
        length_byte == Len(final_payload)
        header == STX \o <<cmd_byte, length_byte>>
        data_to_sum == header \o final_payload
    IN  data_to_sum \o <<calculate_checksum(data_to_sum)>>

\* self.build_packet(CMD_ACK)
AckFrame == build_packet(CMD_ACK, <<>>, NULL)

\* The pack number a command frame carries (first payload byte).
PackNoOf(frame) == frame[5]

\* ------------------------------------------------------------- the store
Statuses == {"PENDING", "SENDING", "ACKED", "ACCEPTED", "DISPENSING",
             "COMPLETED", "FAILED"}
Terminal == {"COMPLETED", "FAILED"}

Ids == DOMAIN command_queue

\* add_command(command_hex): a new PENDING row with the column defaults.
NewRow(hex) ==
    [command_hex |-> hex, status |-> "PENDING", retry_count |-> 0,
     assigned_pack_no |-> NULL, response_payload |-> <<>>,
     completion_details |-> <<>>]

add_command(cq, hex) == Append(cq, NewRow(hex))

\* ORDER BY CASE WHEN status = 'SENDING' THEN 1 ELSE 2 END, id ASC
OrderRank(cq, i) == IF cq[i].status = "SENDING" THEN 1 ELSE 2

Before(cq, i, j) ==
    \/ OrderRank(cq, i) < OrderRank(cq, j)
    \/ OrderRank(cq, i) = OrderRank(cq, j) /\ i <= j

\* Mutant: the ORDER BY is reversed, so a PENDING row is served before a
\* SENDING one.
get_next_command_pending_first(cq) ==
    LET cand == {i \in DOMAIN cq : cq[i].status \in {"PENDING", "SENDING"}}
    IN  IF cand = {} THEN NULL
        ELSE CHOOSE i \in cand : \A j \in cand : Before(cq, j, i)

\* get_next_command(): id of the selected row, NULL when no row is selected.
get_next_command(cq) ==
    LET cand == {i \in DOMAIN cq : cq[i].status \in {"PENDING", "SENDING"}}
    IN  IF cand = {} THEN NULL
        ELSE CHOOSE i \in cand : \A j \in cand : Before(cq, i, j)

mark_as_sending(cq, cmd_id, pack_no) ==
    [cq EXCEPT ![cmd_id].status = "SENDING", ![cmd_id].assigned_pack_no = pack_no]

\* Mutant: the UPDATE leaves completion_details out.
update_command_result_without_details(cq, cmd_id, status, response_hex, details) ==
    IF cmd_id \in DOMAIN cq
    THEN [cq EXCEPT ![cmd_id].status = status,
                    ![cmd_id].response_payload = response_hex]
    ELSE cq

\* response_hex / details: <<>> for None, <<v>> for a value.
update_command_result(cq, cmd_id, status, response_hex, details) ==
    IF cmd_id \in DOMAIN cq
    THEN [cq EXCEPT ![cmd_id].status = status,
                    ![cmd_id].response_payload = response_hex,
                    ![cmd_id].completion_details = details]
    ELSE cq

\* Mutant: the ceiling is compared with the count before the increment.
RetryStatusLate(current_retries) ==
    IF current_retries >= MAX_RETRIES THEN "FAILED" ELSE "SENDING"

RetryStatus(current_retries) ==
    IF current_retries + 1 >= MAX_RETRIES THEN "FAILED" ELSE "SENDING"

increment_retry(cq, cmd_id, current_retries) ==
    [cq EXCEPT ![cmd_id].retry_count = current_retries + 1,
               ![cmd_id].status = RetryStatus(current_retries)]

\* Mutant: the pack number wraps as a byte, 255 -> 0.
NextPackNoByte(n) == (n + 1) % (PACK_NO_MODULUS + 1)

NextPackNo(n) == (n % PACK_NO_MODULUS) + 1

\* --------------------------------------------------------------- packets
\* What read_packet returns: a record for a checksum-valid frame, NoPacket
\* for None (timeout, short read, bad checksum).
Packet(c, p) == [cmd |-> c, payload |-> p]
NoPacket == Packet(NULL, <<>>)
POLL == Packet(CMD_POLL, <<>>)
ACK == Packet(CMD_ACK, <<>>)
\* Data frames of the device: its own pack number (01 here), then the body.
SelectionCheck(code) == Packet(CMD_SELECTION_CHECK, <<1, code>>)
DispenseStatus(code) == Packet(CMD_DISPENSE_STATUS, <<1, code>>)

SelectionCodes == {1, 2}
DispenseCodes == {1, 2, 3}

DataPackets ==
    {SelectionCheck(c) : c \in SelectionCodes}
    \cup {DispenseStatus(c) : c \in DispenseCodes}
    \cup {Packet(CMD_DISPENSE_STATUS, <<>>),
          Packet(CMD_SELECTION_CHECK, <<1>>),
          Packet(CMD_MONEY_NOTICE, <<1, 1, 0, 0, 0, 100>>)}

\* Commands the request surface enqueues (bytes of command_hex):
\* CommandBuilder.dispense(10).
CommandHexes == {<<CMD_DISPENSE, 0, 10>>}

\* ---------------------------------------------------------- the parser
\* data_body = payload[1:] if len(payload) > 0 else b''
DataBody(payload) == IF Len(payload) > 0 THEN Tail(payload) ELSE <<>>

SelectionMessage(status_code) ==
    CASE status_code = 1 -> "Normal"
      [] status_code = 2 -> "Out of Stock"
      [] status_code = 3 -> "Invalid Selection"
      [] status_code = 4 -> "Paused"
      [] OTHER -> "Error"

\* Python's hex() of a byte: "0x0", "0x11", "0xff".
HexDigits == <<"0", "1", "2", "3", "4", "5", "6", "7",
               "8", "9", "a", "b", "c", "d", "e", "f">>
PyHex(n) ==
    "0x" \o (IF n < 16 THEN HexDigits[n + 1]
             ELSE HexDigits[(n \div 16) + 1] \o HexDigits[(n % 16) + 1])

\* status_map.get(status_code, f"Code {hex(status_code)}")
DispenseMessage(status_code) ==
    CASE status_code = 1 -> "Dispensing..."
      [] status_code = 2 -> "Success"
      [] status_code = 3 -> "Jammed"
      [] status_code = 4 -> "Motor Error"
      [] status_code = 16 -> "Elevator Moving"
      [] status_code = 36 -> "Success (Take)"
      [] OTHER -> "Code " \o PyHex(status_code)

\* Mutant: code 0x24 ("Success (Take)") is not taken as a success.
IsSuccessWithoutTake(status_code) == status_code = 2

IsSuccess(status_code) == status_code \in {2, 36}
\* Mutant: code 0x01 ("Dispensing...") is not taken as intermediate.
IsIntermediateWithoutOne(status_code) ==
    status_code \in {16, 17, 18, 19, 22, 25, 34, 35}

IsIntermediate(status_code) == status_code \in {1, 16, 17, 18, 19, 22, 25, 34, 35}

\* data_body[0] of an empty body raises IndexError, which run() does not catch.
ParseRaises(cmd, payload) ==
    /\ cmd \in {CMD_MONEY_NOTICE, CMD_SELECTION_CHECK, CMD_DISPENSE_STATUS}
    /\ DataBody(payload) = <<>>

\* Mutant: code 0x04 ("Paused") accepts a dispense like code 0x01.
SelectionCheckStatusPausedAccepted(status_code) ==
    IF pending_action_id # NULL /\ pending_action_type = CMD_DISPENSE
    THEN (IF status_code \in {1, 4} THEN "ACCEPTED" ELSE "FAILED")
    ELSE IF pending_action_id # NULL /\ pending_action_type = CMD_CHECK_SELECTION
    THEN "COMPLETED"
    ELSE "NONE"

\* Status the selection-check branch writes for the pending command, or
\* "NONE" when it writes nothing.
SelectionCheckStatus(status_code) ==
    IF pending_action_id # NULL /\ pending_action_type = CMD_DISPENSE
    THEN (IF status_code = 1 THEN "ACCEPTED" ELSE "FAILED")
    ELSE IF pending_action_id # NULL /\ pending_action_type = CMD_CHECK_SELECTION
    THEN "COMPLETED"
    ELSE "NONE"

\* Status the dispense-status branch writes for the pending command.
DispenseStatusStatus(status_code) ==
    IF pending_action_id # NULL
    THEN (IF IsIntermediate(status_code) THEN "DISPENSING"
          ELSE IF IsSuccess(status_code) THEN "COMPLETED" ELSE "FAILED")
    ELSE "NONE"

\* --------------------------------------------------- the machine status
\* int.from_bytes(bytes, 'big') / struct.unpack big-endian fields.
RECURSIVE BigEndian(_)
BigEndian(bytes) ==
    IF bytes = <<>> THEN 0
    ELSE 256 * BigEndian(SubSeq(bytes, 1, Len(bytes) - 1)) + bytes[Len(bytes)]

\* The characters of the bytes 0x20..0x5F, in order.
AsciiChars ==
    <<" ", "!", "\"", "#", "$", "%", "&", "'", "(", ")", "*", "+",
      ",", "-", ".", "/", "0", "1", "2", "3", "4", "5", "6", "7",
      "8", "9", ":", ";", "<", "=", ">", "?", "@", "A", "B", "C",
      "D", "E", "F", "G", "H", "I", "J", "K", "L", "M", "N", "O",
      "P", "Q", "R", "S", "T", "U", "V", "W", "X", "Y", "Z", "[",
      "\\", "]", "^", "_">>

\* bytes.decode('utf-8', errors='ignore') on bytes 0x20..0x5F, which decode
\* to one ASCII character each; machine ids are drawn from these bytes.
RECURSIVE decode(_)
decode(bytes) ==
    IF bytes = <<>> THEN ""
    ELSE AsciiChars[Head(bytes) - 31] \o decode(Tail(bytes))

\* str.strip() seen on the bytes: leading and trailing spaces are removed.
RECURSIVE strip(_)
strip(bytes) ==
    IF bytes = <<>> THEN <<>>
    ELSE IF Head(bytes) = 32 THEN strip(Tail(bytes))
    ELSE IF bytes[Len(bytes)] = 32 THEN strip(SubSeq(bytes, 1, Len(bytes) - 1))
    ELSE bytes

\* The machine-status branch parses a body of at least 24 bytes.
MachineStatusWhole(cmd, payload) ==
    cmd = CMD_MACHINE_STATUS /\ Len(DataBody(payload)) >= 24

\* parsed_info of the machine-status branch.
MachineStatusDetails(data_body) ==
    [bill_acceptor |-> IF data_body[1] # 0 THEN "Error" ELSE "Normal",
     coin_acceptor |-> IF data_body[2] # 0 THEN "Error" ELSE "Normal",
     card_reader |-> IF data_body[3] # 0 THEN "Error" ELSE "Normal",
     temp_controller |-> IF data_body[4] # 0 THEN "Error" ELSE "Normal",
     temperature |-> data_body[5],
     door |-> IF data_body[6] # 0 THEN "Open" ELSE "Closed",
     bill_change |-> BigEndian(SubSeq(data_body, 7, 10)),
     coin_change |-> BigEndian(SubSeq(data_body, 11, 14))]

\* update_machine_status(key, value, raw_hex): insert the row of `key` or
\* replace its value and raw_hex.
update_machine_status(table, key, value, raw_hex) ==
    {r \in table : r.key # key}
    \cup {[key |-> key, value |-> value, raw_hex |-> raw_hex]}

\* The keys the machine-status branch writes, in the order of its
\* update_machine_status calls.
MachineStatusKeys ==
    <<"temperature", "door", "bill_change_amount", "coin_change_amount",
      "machine_id">>

\* vmc_status after the k-th of these calls, each a transaction of its own;
\* the numbers are stored as str() gives them.
MachineStatusCommit(table, payload, k) ==
    LET data_body == DataBody(payload)
        statuses == MachineStatusDetails(data_body)
        key == MachineStatusKeys[k]
        value == CASE key = "temperature" -> ToString(statuses.temperature)
                   [] key = "door" -> statuses.door
                   [] key = "bill_change_amount" -> ToString(statuses.bill_change)
                   [] key = "coin_change_amount" -> ToString(statuses.coin_change)
                   [] key = "machine_id" ->
                        decode(strip(SubSeq(data_body, 15, 24)))
    IN  update_machine_status(table, key, value, payload)

\* Status the machine-status branch writes for the pending command, or
\* "NONE" when it writes nothing.
MachineStatusStatus(cmd, payload) ==
    IF /\ MachineStatusWhole(cmd, payload)
       /\ pending_action_id # NULL
       /\ pending_action_type = CMD_QUERY_STATUS
    THEN "COMPLETED"
    ELSE "NONE"

\* The status parse_vmc_data writes with update_command_result, "NONE" if none.
ParseStatus(cmd, payload) ==
    IF ParseRaises(cmd, payload) THEN "NONE"
    ELSE IF cmd = CMD_SELECTION_CHECK THEN SelectionCheckStatus(DataBody(payload)[1])
    ELSE IF cmd = CMD_DISPENSE_STATUS THEN DispenseStatusStatus(DataBody(payload)[1])
    ELSE IF cmd = CMD_MACHINE_STATUS THEN MachineStatusStatus(cmd, payload)
    ELSE "NONE"

ParseDetails(cmd, payload) ==
    LET status_code == DataBody(payload)[1]
    IN  IF cmd = CMD_SELECTION_CHECK
        THEN [status_code |-> status_code, message |-> SelectionMessage(status_code)]
        ELSE IF cmd = CMD_MACHINE_STATUS
        THEN MachineStatusDetails(DataBody(payload))
        ELSE [status |-> DispenseMessage(status_code), code |-> status_code]

\* command_queue after parse_vmc_data(cmd, payload).
ParseQueue(cmd, payload) ==
    IF ParseStatus(cmd, payload) = "NONE" THEN command_queue
    ELSE update_command_result(command_queue, pending_action_id,
                               ParseStatus(cmd, payload), <<payload>>,
                               <<ParseDetails(cmd, payload)>>)

\* ------------------------------------------------------- history records
\* The last frame read by read_packet:
\*   data      : it was a data frame (an opcode other than POLL and ACK; None
\*               is no frame)
\*   parsed    : run() handed it to parse_vmc_data
\*   misrouted : the parser recorded it on a command other than the one the
\*               device emitted it for
\*   kind      : "none" (read_packet returned None), "poll", "ack" or "data"
IsData(cmd) == cmd \notin {CMD_POLL, CMD_ACK, NULL}
RxKind(cmd) ==
    CASE cmd = NULL -> "none"
      [] cmd = CMD_POLL -> "poll"
      [] cmd = CMD_ACK -> "ack"
      [] OTHER -> "data"
Rx(cmd, parsed, misrouted) ==
    [data |-> IsData(cmd), parsed |-> parsed, misrouted |-> misrouted,
     kind |-> RxKind(cmd)]

\* The end-to-end dispense scenario, one entry per event.
Scenario ==
    << <<"enqueue", CMD_DISPENSE, <<0, 10>> >>,
       <<"rx", CMD_POLL, <<>> >>,
       <<"rx_inline", CMD_ACK, <<>> >>,
       <<"rx", CMD_SELECTION_CHECK, <<1, 1>> >>,
       <<"rx", CMD_DISPENSE_STATUS, <<1, 1>> >>,
       <<"rx", CMD_DISPENSE_STATUS, <<1, 2>> >> >>

\* Progress along Scenario after one more event; NULL once the run has left it.
ScenarioStep(kind, cmd, payload) ==
    IF e2e # NULL /\ e2e < Len(Scenario) /\ Scenario[e2e + 1] = <<kind, cmd, payload>>
    THEN e2e + 1
    ELSE NULL

\* Commands the device has received and not finished, as the store sees them.
Live(i) == command_queue[i].status \in {"ACKED", "ACCEPTED", "DISPENSING"}

RECURSIVE SumSeq(_)
SumSeq(s) == IF s = <<>> THEN 0 ELSE Head(s) + SumSeq(Tail(s))

\* ----------------------------------------------------- the products table
\* parse_product_report returning None.
NoProduct == [selection |-> NULL]

\* Mutant: only the low byte of the selection id is taken.
parse_product_report_selection_low_byte(data_body) ==
    IF Len(data_body) < 11 THEN NoProduct
    ELSE [selection |-> data_body[2],
          price |-> BigEndian(SubSeq(data_body, 3, 6)),
          inventory |-> data_body[7],
          capacity |-> data_body[8],
          product_id |-> BigEndian(SubSeq(data_body, 9, 10)),
          status |-> data_body[11]]

\* struct.unpack('>HIBBHB', data_body[:11])
parse_product_report(data_body) ==
    IF Len(data_body) < 11 THEN NoProduct
    ELSE [selection |-> BigEndian(SubSeq(data_body, 1, 2)),
          price |-> BigEndian(SubSeq(data_body, 3, 6)),
          inventory |-> data_body[7],
          capacity |-> data_body[8],
          product_id |-> BigEndian(SubSeq(data_body, 9, 10)),
          status |-> data_body[11]]

\* INSERT ... ON CONFLICT(selection_id) DO UPDATE; updated_at is left out.
upsert_product(pr, data) ==
    {r \in pr : r.selection_id # data.selection}
    \cup {[selection_id |-> data.selection, price |-> data.price,
            inventory |-> data.inventory, capacity |-> data.capacity,
            product_id |-> data.product_id, status |-> data.status]}

\* products after parse_vmc_data(cmd, payload).
ParseProducts(cmd, payload) ==
    IF cmd = CMD_REPORT_PRODUCT /\ parse_product_report(DataBody(payload)) # NoProduct
    THEN upsert_product(products, parse_product_report(DataBody(payload)))
    ELSE products

\* -------------------------------------------------------- the event log
\* Largest number of rows of event_log.
MaxEvents == 2

\* Opcodes parse_vmc_data has a branch for; every other opcode falls back to
\* log_event.
HandledOpcodes ==
    {CMD_MONEY_NOTICE, CMD_REPORT_PRODUCT, CMD_SELECTION_CHECK,
     CMD_DISPENSE_STATUS, CMD_MACHINE_STATUS}

\* log_event(event_type, raw_data): event_type is "CMD_" and the opcode.
log_event(log, cmd, payload) ==
    Append(log, [event_type |-> <<"CMD", cmd>>, raw_data |-> payload])

\* event_log after parse_vmc_data(cmd, payload).
ParseLog(cmd, payload) ==
    IF cmd \in HandledOpcodes THEN event_log
    ELSE log_event(event_log, cmd, payload)

\* No request is blocked in wait_for_command_result.
\*   pc       : "idle" | "check" (at the while condition) | "sleep" | "done"
\*   elapsed  : time.time() - start_time, in poll intervals of 100 ms
\*   observed : the status read by the last SELECT
\*   result   : the outcome returned
NoWait == [pc |-> "idle", cmd_id |-> NULL, elapsed |-> 0, observed |-> "NONE",
           result |-> "NONE"]

\* No call of the codec is under way.
\*   stage  : "none" | "input" | "built" | "corrupted" | "strayed" | "read"
\*   frame  : the bytes build_packet returned, as they are on the link
\*   flip   : <<>>, or <<i, k>> when bit k of byte i of the frame was flipped
\*   stray  : <<>>, or <<b>> when byte b was put on the link before the frame
\*   packet : what read_packet returned on the frame
NoCodec == [stage |-> "none", cmd |-> NULL, payload |-> <<>>, pack_no |-> NULL,
            frame |-> <<>>, flip |-> <<>>, stray |-> <<>>, packet |-> NoPacket]

\* parse_vmc_data is not inside the machine-status branch.
\*   step   : the number of update_machine_status calls committed
\*   packet : the frame being parsed
NoParsing == [step |-> 0, packet |-> NoPacket]

\* ------------------------------------------------------------------ init
NoCmd == [id |-> NULL, status |-> "NONE", retry_count |-> 0,
          assigned_pack_no |-> NULL, command_hex |-> <<>>]

Row(cq, i) ==
    [id |-> i, status |-> cq[i].status, retry_count |-> cq[i].retry_count,
     assigned_pack_no |-> cq[i].assigned_pack_no,
     command_hex |-> cq[i].command_hex]

InitEngine(pack_no) ==
    /\ command_queue = <<>>
    /\ current_local_pack_no = pack_no
    /\ pending_action_id = NULL
    /\ pending_action_type = NULL
    /\ pc = "read"
    /\ next_cmd = NoCmd
    /\ tx = <<>>
    /\ rx = Rx(NULL, FALSE, FALSE)
    /\ wire = <<>>
    /\ missed = <<>>
    /\ prev_pack_no = NULL
    /\ e2e = 0
    /\ ser = "open"
    /\ products = {}
    /\ event_log = <<>>
    /\ vmc_status = {}
    /\ parsing = NoParsing
    /\ wait = NoWait
    /\ codec = NoCodec

Init == InitEngine(FIRST_PACK_NO)

\* --------------------------------------------------------------- actions
\* The request surface inserts a command; it runs concurrently with run().
Enqueue(hex) ==
    /\ Len(command_queue) < MaxCmds
    /\ command_queue' = add_command(command_queue, hex)
    /\ wire' = Append(wire, {})
    /\ missed' = Append(missed, 0)
    /\ e2e' = ScenarioStep("enqueue", hex[1], Tail(hex))
    /\ UNCHANGED <<current_local_pack_no, pending_action_id,
                   pending_action_type, pc, next_cmd, tx, rx, prev_pack_no>>
    /\ UNCHANGED <<ser, products, event_log, vmc_status, parsing, wait, codec>>

\* The pack number run() sends next_cmd with.
DispatchPackNo(row) ==
    IF row.status = "PENDING" THEN current_local_pack_no ELSE row.assigned_pack_no

\* run(): a POLL is read and a command is queued: it is written to the link.
PollDispatch ==
    /\ pc = "read"
    /\ ser = "open"
    /\ get_next_command(command_queue) # NULL
    /\ LET row == Row(command_queue, get_next_command(command_queue))
           raw_bytes == row.command_hex
           pack_no == DispatchPackNo(row)
           frame == build_packet(raw_bytes[1], Tail(raw_bytes), pack_no)
       IN  /\ next_cmd' = row
           /\ command_queue' = IF row.status = "PENDING"
                                THEN mark_as_sending(command_queue, row.id, pack_no)
                                ELSE command_queue
           /\ pending_action_id' = row.id
           /\ pending_action_type' = raw_bytes[1]
           /\ tx' = frame
           /\ wire' = [wire EXCEPT ![row.id] = @ \cup {PackNoOf(frame)}]
    /\ pc' = "ack"
    /\ rx' = Rx(CMD_POLL, FALSE, FALSE)
    /\ e2e' = ScenarioStep("rx", CMD_POLL, <<>>)
    /\ UNCHANGED <<current_local_pack_no, missed, prev_pack_no>>
    /\ UNCHANGED <<ser, products, event_log, vmc_status, parsing, wait, codec>>

\* run(): a POLL is read and nothing is queued: an ACK is written.
PollIdle ==
    /\ pc = "read"
    /\ ser = "open"
    /\ get_next_command(command_queue) = NULL
    /\ pending_action_id' = NULL
    /\ pending_action_type' = NULL
    /\ next_cmd' = NoCmd
    /\ tx' = AckFrame
    /\ rx' = Rx(CMD_POLL, FALSE, FALSE)
    /\ e2e' = ScenarioStep("rx", CMD_POLL, <<>>)
    /\ UNCHANGED <<command_queue, current_local_pack_no, pc, wire,
                   missed, prev_pack_no>>
    /\ UNCHANGED <<ser, products, event_log, vmc_status, parsing, wait, codec>>

\* Mutant: the pack number advances after every dispatch, acked or not.
PackNoAfterInlineReadAlways(packet) == NextPackNo(current_local_pack_no)

\* The pack number after the read that follows a dispatch returned `packet`.
PackNoAfterInlineRead(packet) ==
    IF packet.cmd = CMD_ACK THEN NextPackNo(current_local_pack_no)
    ELSE current_local_pack_no

\* run(): the read after the write returns an ACK.
AckReceived ==
    /\ pc = "ack"
    /\ ser = "open"
    /\ command_queue' = update_command_result(command_queue, next_cmd.id, "ACKED",
                                              <<>>, <<>>)
    /\ current_local_pack_no' = PackNoAfterInlineRead(ACK)
    /\ prev_pack_no' = current_local_pack_no
    /\ pc' = "read"
    /\ rx' = Rx(CMD_ACK, FALSE, FALSE)
    /\ e2e' = ScenarioStep("rx_inline", CMD_ACK, <<>>)
    /\ UNCHANGED <<pending_action_id, pending_action_type, next_cmd,
                   tx, wire, missed>>
    /\ UNCHANGED <<ser, products, event_log, vmc_status, parsing, wait, codec>>

\* run(): the read after the write returns None or a frame that is no ACK.
AckMissed(packet) ==
    /\ pc = "ack"
    /\ packet.cmd # CMD_ACK
    /\ ser = "open" \/ (ser = "lost" /\ packet = NoPacket)
    /\ SumSeq(missed) < MaxMissed
    /\ command_queue' = increment_retry(command_queue, next_cmd.id, next_cmd.retry_count)
    /\ pending_action_id' =
         IF RetryStatus(next_cmd.retry_count) = "FAILED" THEN NULL ELSE pending_action_id
    /\ current_local_pack_no' = PackNoAfterInlineRead(packet)
    /\ missed' = [missed EXCEPT ![next_cmd.id] = @ + 1]
    /\ pc' = "read"
    /\ rx' = Rx(packet.cmd, FALSE, FALSE)
    /\ e2e' = ScenarioStep("rx_inline", packet.cmd, packet.payload)
    /\ UNCHANGED <<pending_action_type, next_cmd, tx, wire, prev_pack_no>>
    /\ UNCHANGED <<ser, products, event_log, vmc_status, parsing, wait, codec>>

\* run(): a data frame is read at the top of the loop, parsed and acknowledged.
\* The parser commits one transaction at most on these frames; the
\* machine-status frames with a whole body are read by RecvMachineStatus.
\* `about` is the command the device emitted the frame for (NULL: none).
RecvData(packet, about) ==
    /\ pc = "read"
    /\ ser = "open"
    /\ ~ParseRaises(packet.cmd, packet.payload)
    /\ ~MachineStatusWhole(packet.cmd, packet.payload)
    /\ command_queue' = ParseQueue(packet.cmd, packet.payload)
    /\ tx' = AckFrame
    /\ rx' = Rx(packet.cmd, TRUE,
                /\ ParseStatus(packet.cmd, packet.payload) # "NONE"
                /\ about \notin {NULL, pending_action_id})
    /\ e2e' = ScenarioStep("rx", packet.cmd, packet.payload)
    /\ UNCHANGED <<current_local_pack_no, pending_action_id, pending_action_type,
                   pc, next_cmd, wire, missed, prev_pack_no>>
    /\ products' = ParseProducts(packet.cmd, packet.payload)
    /\ Len(ParseLog(packet.cmd, packet.payload)) <= MaxEvents
    /\ event_log' = ParseLog(packet.cmd, packet.payload)
    /\ UNCHANGED <<ser, vmc_status, parsing, wait, codec>>

\* run(): a machine-status frame with a body of 24 bytes or more is read at the
\* top of the loop; parse_vmc_data commits the first update_machine_status.
RecvMachineStatus(packet) ==
    /\ pc = "read"
    /\ ser = "open"
    /\ MachineStatusWhole(packet.cmd, packet.payload)
    /\ vmc_status' = MachineStatusCommit(vmc_status, packet.payload, 1)
    /\ parsing' = [step |-> 1, packet |-> packet]
    /\ pc' = "parse"
    /\ rx' = Rx(packet.cmd, TRUE, FALSE)
    /\ e2e' = ScenarioStep("rx", packet.cmd, packet.payload)
    /\ UNCHANGED <<command_queue, current_local_pack_no, pending_action_id,
                   pending_action_type, next_cmd, tx, wire, missed, prev_pack_no,
                   ser, products, event_log, wait, codec>>

\* The last transaction of parse_vmc_data on the frame is update_command_result
\* when a query-status command is pending, else the last update_machine_status.
MachineStatusLastStep ==
    IF ParseStatus(parsing.packet.cmd, parsing.packet.payload) = "NONE"
    THEN Len(MachineStatusKeys) - 1
    ELSE Len(MachineStatusKeys)

\* parse_vmc_data commits the next update_machine_status.
MachineStatusStep ==
    /\ pc = "parse"
    /\ parsing.step < MachineStatusLastStep
    /\ vmc_status' = MachineStatusCommit(vmc_status, parsing.packet.payload,
                                         parsing.step + 1)
    /\ parsing' = [parsing EXCEPT !.step = @ + 1]
    /\ UNCHANGED <<command_queue, current_local_pack_no, pending_action_id,
                   pending_action_type, pc, next_cmd, tx, rx, wire, missed,
                   prev_pack_no, e2e, ser, products, event_log, wait, codec>>

\* vmc_status after the last transaction of parse_vmc_data on the frame.
MachineStatusLast ==
    IF parsing.step < Len(MachineStatusKeys)
    THEN MachineStatusCommit(vmc_status, parsing.packet.payload,
                             Len(MachineStatusKeys))
    ELSE vmc_status

\* parse_vmc_data commits its last transaction and returns; run() writes the
\* ACK.
MachineStatusEnd ==
    /\ pc = "parse"
    /\ ser = "open"
    /\ parsing.step = MachineStatusLastStep
    /\ vmc_status' = MachineStatusLast
    /\ command_queue' = ParseQueue(parsing.packet.cmd, parsing.packet.payload)
    /\ parsing' = NoParsing
    /\ tx' = AckFrame
    /\ pc' = "read"
    /\ UNCHANGED <<current_local_pack_no, pending_action_id, pending_action_type,
                   next_cmd, rx, wire, missed, prev_pack_no, e2e, ser, products,
                   event_log, wait, codec>>

\* run(): parse_vmc_data raises on the frame read; the exception leaves run().
RecvDataRaises(packet) ==
    /\ pc = "read"
    /\ ser = "open"
    /\ ParseRaises(packet.cmd, packet.payload)
    /\ pc' = "crashed"
    /\ rx' = Rx(packet.cmd, TRUE, FALSE)
    /\ e2e' = ScenarioStep("rx", packet.cmd, packet.payload)
    /\ UNCHANGED <<command_queue, current_local_pack_no,
                   pending_action_id, pending_action_type, next_cmd, tx, wire,
                   missed, prev_pack_no>>
    /\ UNCHANGED <<ser, products, event_log, vmc_status, parsing, wait, codec>>

\* run(): an ACK is read at the top of the loop: neither branch is taken.
RecvStrayAck ==
    /\ pc = "read"
    /\ ser = "open"
    /\ rx' = Rx(CMD_ACK, FALSE, FALSE)
    /\ e2e' = ScenarioStep("rx", CMD_ACK, <<>>)
    /\ UNCHANGED <<command_queue, current_local_pack_no,
                   pending_action_id, pending_action_type, pc, next_cmd, tx,
                   wire, missed, prev_pack_no>>
    /\ UNCHANGED <<ser, products, event_log, vmc_status, parsing, wait, codec>>

\* Commands a business frame of the device can be about: one the device has
\* acknowledged and not finished, or none (a frame caused at the machine).
AboutChoices(packet) ==
    IF packet.cmd \in {CMD_SELECTION_CHECK, CMD_DISPENSE_STATUS}
    THEN {i \in Ids : Live(i)} \cup {NULL}
    ELSE {NULL}

Next ==
    \/ \E hex \in CommandHexes : Enqueue(hex)
    \/ PollDispatch
    \/ PollIdle
    \/ AckReceived
    \/ \E packet \in DataPackets \cup {POLL, NoPacket} : AckMissed(packet)
    \/ \E packet \in DataPackets : \E about \in AboutChoices(packet) :
          RecvData(packet, about)
    \/ \E packet \in DataPackets : RecvDataRaises(packet)
    \/ RecvStrayAck

Spec == Init /\ [][Next]_vars

\* The engine once its pack number has reached 255: the rows of the commands
\* acknowledged on the way are past SENDING, are never selected again, and are
\* left out.
InitWrap == InitEngine(PACK_NO_MODULUS)

SpecWrap == InitWrap /\ [][Next]_vars

\* ------------------------------------------------------ the codec alone
\* read_packet's scan for FA FB: the bytes that follow the first FA FB found,
\* NoSync when the input ends before. A byte read after an FA that is not FB
\* is consumed.
NoSync == <<NULL>>

RECURSIVE AfterSync(_)
AfterSync(stream) ==
    IF stream = <<>> THEN NoSync
    ELSE IF Head(stream) = STX[1]
    THEN (IF Len(stream) >= 2 /\ stream[2] = STX[2]
          THEN SubSeq(stream, 3, Len(stream))
          ELSE AfterSync(SubSeq(stream, 3, Len(stream))))
    ELSE AfterSync(Tail(stream))

\* read_packet() with `stream` as the bytes the port delivers before its
\* read timeout.
read_packet(stream) ==
    LET rest == AfterSync(stream)
    IN  IF rest = NoSync \/ Len(rest) < 2 THEN NoPacket
        ELSE LET cmd == rest[1]
                 length == rest[2]
                 body == SubSeq(rest, 3, Len(rest))
                 payload == SubSeq(body, 1, length)
             IN  IF Len(body) < length + 1 THEN NoPacket
                 ELSE IF calculate_checksum(STX \o <<cmd, length>> \o payload)
                           = body[length + 1]
                 THEN Packet(cmd, payload)
                 ELSE NoPacket

\* Longest payload given to build_packet.
MaxPayload == 2
CodecBytes == {0, 1, 10}
CodecCmds == {CMD_POLL, CMD_ACK, CMD_DISPENSE, CMD_CHECK_SELECTION}
CodecPackNos == {FIRST_PACK_NO, PACK_NO_MODULUS}
CodecPayloads == UNION {[1..n -> CodecBytes] : n \in 0..MaxPayload}

\* Byte b with bit k flipped.
FlipBit(b, k) == Xor(b, 2^k)

InitCodec ==
    /\ command_queue = <<>>
    /\ current_local_pack_no = FIRST_PACK_NO
    /\ pending_action_id = NULL
    /\ pending_action_type = NULL
    /\ pc = "read"
    /\ next_cmd = NoCmd
    /\ tx = <<>>
    /\ rx = Rx(NULL, FALSE, FALSE)
    /\ wire = <<>>
    /\ missed = <<>>
    /\ prev_pack_no = NULL
    /\ e2e = NULL
    /\ ser = "open"
    /\ products = {}
    /\ event_log = <<>>
    /\ vmc_status = {}
    /\ parsing = NoParsing
    /\ wait = NoWait
    /\ \E c \in CodecCmds : \E p \in CodecPayloads : \E n \in CodecPackNos :
          codec = [NoCodec EXCEPT !.stage = "input", !.cmd = c, !.payload = p,
                                  !.pack_no = n]

\* build_packet(cmd, payload, use_pack_no=pack_no)
Build ==
    /\ codec.stage = "input"
    /\ codec' = [codec EXCEPT
                    !.stage = "built",
                    !.frame = build_packet(codec.cmd, codec.payload, codec.pack_no)]
    /\ UNCHANGED <<command_queue, current_local_pack_no, pending_action_id,
                   pending_action_type, pc, next_cmd, tx, rx, wire, missed,
                   prev_pack_no, e2e, ser, products, event_log, vmc_status, parsing, wait>>

\* The link flips bit k of byte i of the frame.
Corrupt(i, k) ==
    /\ codec.stage = "built"
    /\ i \in 1..Len(codec.frame)
    /\ codec' = [codec EXCEPT
                    !.stage = "corrupted",
                    !.frame = [codec.frame EXCEPT ![i] = FlipBit(@, k)],
                    !.flip = <<i, k>>]
    /\ UNCHANGED <<command_queue, current_local_pack_no, pending_action_id,
                   pending_action_type, pc, next_cmd, tx, rx, wire, missed,
                   prev_pack_no, e2e, ser, products, event_log, vmc_status, parsing, wait>>

\* Bytes the link may deliver before a frame.
StrayBytes == {0, 1, 65, 250, 251, 255}

\* The link delivers one stray byte b directly before the frame.
Stray(b) ==
    /\ codec.stage = "built"
    /\ codec' = [codec EXCEPT
                    !.stage = "strayed",
                    !.frame = <<b>> \o codec.frame,
                    !.stray = <<b>>]
    /\ UNCHANGED <<command_queue, current_local_pack_no, pending_action_id,
                   pending_action_type, pc, next_cmd, tx, rx, wire, missed,
                   prev_pack_no, e2e, ser, products, event_log, vmc_status, parsing, wait>>

\* read_packet() on the bytes of the frame.
Read ==
    /\ codec.stage \in {"built", "corrupted", "strayed"}
    /\ codec' = [codec EXCEPT !.stage = "read",
                              !.packet = read_packet(codec.frame)]
    /\ UNCHANGED <<command_queue, current_local_pack_no, pending_action_id,
                   pending_action_type, pc, next_cmd, tx, rx, wire, missed,
                   prev_pack_no, e2e, ser, products, event_log, vmc_status, parsing, wait>>

NextCodec ==
    \/ Build
    \/ \E i \in 1..(MaxPayload + 6) : \E k \in 0..7 : Corrupt(i, k)
    \/ \E b \in StrayBytes : Stray(b)
    \/ Read

SpecCodec == InitCodec /\ [][NextCodec]_vars

\* ---------------------------------------------------- the running loop
\* run(): the read that follows the write of a command returns, with an ACK,
\* another frame or None after the port's read timeout.
\* Status frames of the device for a dispense: accepted, refused,
\* dispensing, completed.
ProgressPackets ==
    {SelectionCheck(1), SelectionCheck(2), DispenseStatus(1), DispenseStatus(2)}

InlineRead ==
    \/ AckReceived
    \/ \E packet \in ProgressPackets \cup {POLL, NoPacket} : AckMissed(packet)

\* The loop on a link that stays open: the device sends the status frames of
\* a dispense and the frames of DataPackets on which parse_vmc_data raises.
NextProgress ==
    \/ \E hex \in CommandHexes : Enqueue(hex)
    \/ PollDispatch
    \/ PollIdle
    \/ InlineRead
    \/ \E packet \in ProgressPackets : RecvData(packet, NULL)
    \/ \E packet \in DataPackets : RecvDataRaises(packet)
    \/ RecvStrayAck

\* The loop is at its top read and get_next_command returns a command: the
\* states in which PollDispatch is enabled.
PollDue ==
    /\ pc = "read"
    /\ ser = "open"
    /\ get_next_command(command_queue) # NULL

\* POLL frames keep arriving: the top read does not go on for ever without
\* returning a POLL while a command is queued (weak fairness of PollDispatch,
\* written with PollDue for its enabling condition); the read after a write
\* always returns.  Once the exception of parse_vmc_data has left run() there
\* is no top read any more, whatever arrives.
SpecProgress ==
    /\ Init /\ [][NextProgress]_vars
    /\ ([]<>~PollDue \/ []<><<PollDispatch>>_vars)
    /\ WF_vars(InlineRead)

\* ---------------------------------------------------------- correlation
\* parse_0x71_generic: the sub-command byte of a generic return, NULL when
\* the body is shorter than 3 bytes.
GenericSubCommand(data_body) ==
    IF Len(data_body) < 3 THEN NULL ELSE data_body[1]

\* A generic return frame: pack number, sub-command, operation type 01,
\* status 00.
GenericReturn(sub_cmd) == Packet(CMD_GENERIC_RETURN, <<1, sub_cmd, 1, 0>>)

\* CommandBuilder: dispense(10), set_price(10, 150), query_machine_status(),
\* sync_info().
CorrelateHexes ==
    {<<CMD_DISPENSE, 0, 10>>, <<CMD_SET_PRICE, 0, 10, 0, 0, 0, 150>>,
     <<CMD_QUERY_STATUS>>, <<CMD_INFO_SYNC>>}

CorrelateSelectionCodes == {0, 1, 2, 3, 4, 255}
CorrelateDispenseCodes ==
    {1, 16, 17, 18, 19, 22, 25, 34, 35} \cup {2, 36} \cup {0, 3, 4, 255}
CorrelateSubCommands == {CMD_SET_PRICE, CMD_SET_PRICE + 1}

\* A machine-status frame: pack number 01, then the body.
MachineStatus(data_body) == Packet(CMD_MACHINE_STATUS, <<1>> \o data_body)

\* Machine-status bodies: all normal, 25 degrees, door closed, change 100 and
\* 50, id "VMC0000001"; the same cut to 23 bytes.
MachineStatusBodies ==
    {<<0, 0, 0, 0, 25, 0, 0, 0, 0, 100, 0, 0, 0, 50,
       86, 77, 67, 48, 48, 48, 48, 48, 48, 49>>,
     <<0, 0, 0, 0, 25, 0, 0, 0, 0, 100, 0, 0, 0, 50,
       86, 77, 67, 48, 48, 48, 48, 48, 48>>}

CorrelatePackets ==
    {SelectionCheck(c) : c \in CorrelateSelectionCodes}
    \cup {DispenseStatus(c) : c \in CorrelateDispenseCodes}
    \cup {GenericReturn(sub_cmd) : sub_cmd \in CorrelateSubCommands}
    \cup {MachineStatus(data_body) : data_body \in MachineStatusBodies}

\* One command of some kind has been enqueued.
InitCorrelate ==
    /\ \E hex \in CorrelateHexes : command_queue = add_command(<<>>, hex)
    /\ current_local_pack_no = FIRST_PACK_NO
    /\ pending_action_id = NULL
    /\ pending_action_type = NULL
    /\ pc = "read"
    /\ next_cmd = NoCmd
    /\ tx = <<>>
    /\ rx = Rx(NULL, FALSE, FALSE)
    /\ wire = <<{}>>
    /\ missed = <<0>>
    /\ prev_pack_no = NULL
    /\ e2e = NULL
    /\ ser = "open"
    /\ products = {}
    /\ event_log = <<>>
    /\ vmc_status = {}
    /\ parsing = NoParsing
    /\ wait = NoWait
    /\ codec = NoCodec

\* The engine serving that command while the device sends status frames.
NextCorrelate ==
    \/ PollDispatch
    \/ PollIdle
    \/ AckReceived
    \/ \E packet \in {POLL, NoPacket} : AckMissed(packet)
    \/ \E packet \in CorrelatePackets : RecvData(packet, NULL)
    \/ \E packet \in CorrelatePackets : RecvMachineStatus(packet)
    \/ MachineStatusStep
    \/ MachineStatusEnd

SpecCorrelate == InitCorrelate /\ [][NextCorrelate]_vars

\* ------------------------------------------------------ product reports
\* Product-report frames: the device's pack number, then the record.
ReportVector == <<0, 10, 0, 0, 0, 150, 5, 10, 0, 7, 0>>

ReportPackets ==
    {Packet(CMD_REPORT_PRODUCT, <<1>> \o record) :
        record \in {ReportVector,
                    <<0, 10, 0, 1, 0, 0, 4, 10, 0, 7, 1>>,
                    <<1, 10, 0, 0, 0, 150, 5, 10, 1, 0, 0>>,
                    SubSeq(ReportVector, 1, 10),
                    ReportVector \o <<255>>}}
    \cup {Packet(CMD_REPORT_PRODUCT, <<>>)}

\* One command has been enqueued.
InitReport ==
    /\ command_queue = add_command(<<>>, <<CMD_DISPENSE, 0, 10>>)
    /\ current_local_pack_no = FIRST_PACK_NO
    /\ pending_action_id = NULL
    /\ pending_action_type = NULL
    /\ pc = "read"
    /\ next_cmd = NoCmd
    /\ tx = <<>>
    /\ rx = Rx(NULL, FALSE, FALSE)
    /\ wire = <<{}>>
    /\ missed = <<0>>
    /\ prev_pack_no = NULL
    /\ e2e = NULL
    /\ ser = "open"
    /\ products = {}
    /\ event_log = <<>>
    /\ vmc_status = {}
    /\ parsing = NoParsing
    /\ wait = NoWait
    /\ codec = NoCodec

\* The engine serving that command while the device reports its products.
NextReport ==
    \/ PollDispatch
    \/ PollIdle
    \/ AckReceived
    \/ \E packet \in ReportPackets \cup {POLL, NoPacket} : AckMissed(packet)
    \/ \E packet \in ReportPackets : RecvData(packet, NULL)
    \/ RecvStrayAck

SpecReport == InitReport /\ [][NextReport]_vars

\* ------------------------------------------------------------- the link
\* run() from its first statement: the link is not open yet.
InitLink ==
    /\ command_queue = <<>>
    /\ current_local_pack_no = FIRST_PACK_NO
    /\ pending_action_id = NULL
    /\ pending_action_type = NULL
    /\ pc = "connect"
    /\ next_cmd = NoCmd
    /\ tx = <<>>
    /\ rx = Rx(NULL, FALSE, FALSE)
    /\ wire = <<>>
    /\ missed = <<>>
    /\ prev_pack_no = NULL
    /\ e2e = NULL
    /\ ser = "closed"
    /\ products = {}
    /\ event_log = <<>>
    /\ vmc_status = {}
    /\ parsing = NoParsing
    /\ wait = NoWait
    /\ codec = NoCodec

\* connect(): serial.Serial raises; the error is logged and the open is tried
\* again after 5 s.
ConnectFails ==
    /\ pc = "connect"
    /\ UNCHANGED vars

\* connect(): serial.Serial returns the port, which is assigned to self.ser,
\* and reset_input_buffer raises; the error is logged and the open is tried
\* again after 5 s.
ConnectResetFails ==
    /\ pc = "connect"
    /\ ser' = "open"
    /\ UNCHANGED <<command_queue, current_local_pack_no, pending_action_id,
                   pending_action_type, pc, next_cmd, tx, rx, wire, missed,
                   prev_pack_no, e2e, products, event_log, vmc_status, parsing, wait,
                   codec>>

\* connect(): the port opens and its input buffer is reset; run() enters the
\* loop.
ConnectOk ==
    /\ pc = "connect"
    /\ ser' = "open"
    /\ pc' = "read"
    /\ UNCHANGED <<command_queue, current_local_pack_no, pending_action_id,
                   pending_action_type, next_cmd, tx, rx, wire, missed,
                   prev_pack_no, e2e, products, event_log, vmc_status, parsing, wait, codec>>

\* The physical link is lost: from now on every read and write on the open
\* port raises.
LinkLost ==
    /\ ser = "open"
    /\ pc # "crashed"
    /\ ser' = "lost"
    /\ UNCHANGED <<command_queue, current_local_pack_no, pending_action_id,
                   pending_action_type, pc, next_cmd, tx, rx, wire, missed,
                   prev_pack_no, e2e, products, event_log, vmc_status, parsing, wait, codec>>

\* run(): the read at the top of the loop raises inside read_packet, which
\* logs the error and returns None; run() continues with the next read.
ReadFails ==
    /\ pc = "read"
    /\ ser = "lost"
    /\ rx' = Rx(NULL, FALSE, FALSE)
    /\ e2e' = NULL
    /\ UNCHANGED <<command_queue, current_local_pack_no, pending_action_id,
                   pending_action_type, pc, next_cmd, tx, wire, missed,
                   prev_pack_no, ser, products, event_log, vmc_status, parsing, wait, codec>>

\* run(): a POLL is read with nothing queued and the link is lost before the
\* ACK is written: ser.write raises and the exception leaves run().
PollIdleWriteRaises ==
    /\ pc = "read"
    /\ ser = "open"
    /\ get_next_command(command_queue) = NULL
    /\ pending_action_id' = NULL
    /\ pending_action_type' = NULL
    /\ next_cmd' = NoCmd
    /\ rx' = Rx(CMD_POLL, FALSE, FALSE)
    /\ e2e' = NULL
    /\ ser' = "lost"
    /\ pc' = "crashed"
    /\ UNCHANGED <<command_queue, current_local_pack_no, tx, wire, missed,
                   prev_pack_no, products, event_log, vmc_status, parsing, wait, codec>>

\* run(): a POLL is read and a command is queued; the row is marked and the
\* pending context set, then the link is lost before the command is written:
\* ser.write raises and the exception leaves run().
PollDispatchWriteRaises ==
    /\ pc = "read"
    /\ ser = "open"
    /\ get_next_command(command_queue) # NULL
    /\ LET row == Row(command_queue, get_next_command(command_queue))
           raw_bytes == row.command_hex
           pack_no == DispatchPackNo(row)
       IN  /\ next_cmd' = row
           /\ command_queue' = IF row.status = "PENDING"
                                THEN mark_as_sending(command_queue, row.id, pack_no)
                                ELSE command_queue
           /\ pending_action_id' = row.id
           /\ pending_action_type' = raw_bytes[1]
    /\ rx' = Rx(CMD_POLL, FALSE, FALSE)
    /\ e2e' = NULL
    /\ ser' = "lost"
    /\ pc' = "crashed"
    /\ UNCHANGED <<current_local_pack_no, tx, wire, missed, prev_pack_no,
                   products, event_log, vmc_status, parsing, wait, codec>>

\* run(): a data frame is read and parsed, then the link is lost before the
\* ACK is written: ser.write raises and the exception leaves run().  The
\* parser commits one transaction at most on these frames.
RecvDataWriteRaises(packet) ==
    /\ pc = "read"
    /\ ser = "open"
    /\ ~ParseRaises(packet.cmd, packet.payload)
    /\ ~MachineStatusWhole(packet.cmd, packet.payload)
    /\ command_queue' = ParseQueue(packet.cmd, packet.payload)
    /\ products' = ParseProducts(packet.cmd, packet.payload)
    /\ Len(ParseLog(packet.cmd, packet.payload)) <= MaxEvents
    /\ event_log' = ParseLog(packet.cmd, packet.payload)
    /\ rx' = Rx(packet.cmd, TRUE, FALSE)
    /\ e2e' = NULL
    /\ ser' = "lost"
    /\ pc' = "crashed"
    /\ UNCHANGED <<current_local_pack_no, pending_action_id, pending_action_type,
                   next_cmd, tx, wire, missed, prev_pack_no, vmc_status, parsing,
                   wait, codec>>

\* parse_vmc_data commits its last transaction on a machine-status frame and
\* returns, then the link is lost before the ACK is written: ser.write raises
\* and the exception leaves run().
MachineStatusEndWriteRaises ==
    /\ pc = "parse"
    /\ parsing.step = MachineStatusLastStep
    /\ vmc_status' = MachineStatusLast
    /\ command_queue' = ParseQueue(parsing.packet.cmd, parsing.packet.payload)
    /\ parsing' = NoParsing
    /\ e2e' = NULL
    /\ ser' = "lost"
    /\ pc' = "crashed"
    /\ UNCHANGED <<current_local_pack_no, pending_action_id, pending_action_type,
                   next_cmd, tx, rx, wire, missed, prev_pack_no, products,
                   event_log, wait, codec>>

\* The machine-status body the device sends on this link: the temperature
\* controller in error, 25 degrees, the door open, change 100 and 50, the id
\* "VMC1" padded with spaces.
LinkMachineStatusBodies ==
    {<<0, 0, 0, 1, 25, 1, 0, 0, 0, 100, 0, 0, 0, 50,
       32, 86, 77, 67, 49, 32, 32, 32, 32, 32>>}

NextLink ==
    \/ ConnectFails
    \/ ConnectResetFails
    \/ ConnectOk
    \/ LinkLost
    \/ ReadFails
    \/ PollIdleWriteRaises
    \/ PollDispatchWriteRaises
    \/ \E packet \in DataPackets : RecvDataWriteRaises(packet)
    \/ \E data_body \in LinkMachineStatusBodies :
          RecvMachineStatus(MachineStatus(data_body))
    \/ MachineStatusStep
    \/ MachineStatusEnd
    \/ MachineStatusEndWriteRaises
    \/ Next

\* run() never pauses: on a lost link it goes on reading. Nothing is assumed
\* of the device, the link or the request surface.
SpecLink == InitLink /\ [][NextLink]_vars /\ WF_vars(ReadFails)

\* ------------------------------------------------- the blocking request
\* The timeout of wait_for_command_result, in poll intervals.
WaitTicks == 3
\* The longest a pass of the loop (SELECT and sleep(0.1)) takes, in poll
\* intervals.
MaxSleep == 2

\* Mutant: ACKED is taken for a final status.
WaitOutcomeAckedIsFinal(status) ==
    IF status \in {"COMPLETED", "ACKED"} THEN "COMPLETED"
    ELSE IF status = "FAILED" THEN "FAILED"
    ELSE "NONE"

\* What the loop body returns on the status it read; "NONE": it goes on.
WaitOutcome(status) ==
    IF status = "COMPLETED" THEN "COMPLETED"
    ELSE IF status = "FAILED" THEN "FAILED"
    ELSE "NONE"

\* execute_blocking_command: the command is added and the wait starts.
\* database.py does not define add_command; the insert is the one the
\* specification describes.
BlockingEnqueue(hex) ==
    /\ wait.pc = "idle"
    /\ command_queue' = add_command(command_queue, hex)
    /\ wire' = Append(wire, {})
    /\ missed' = Append(missed, 0)
    /\ e2e' = NULL
    /\ wait' = [NoWait EXCEPT !.pc = "check", !.cmd_id = Len(command_queue) + 1]
    /\ UNCHANGED <<current_local_pack_no, pending_action_id,
                   pending_action_type, pc, next_cmd, tx, rx, prev_pack_no,
                   ser, products, event_log, vmc_status,
                   parsing, codec>>

\* The loop is entered: the row is read and is final or not.
WaitQuery ==
    /\ wait.pc = "check"
    /\ wait.elapsed < WaitTicks
    /\ LET status == command_queue[wait.cmd_id].status
       IN  wait' = IF WaitOutcome(status) # "NONE"
                   THEN [wait EXCEPT !.pc = "done", !.observed = status,
                                     !.result = WaitOutcome(status)]
                   ELSE [wait EXCEPT !.pc = "sleep", !.observed = status]
    /\ UNCHANGED <<command_queue, current_local_pack_no, pending_action_id,
                   pending_action_type, pc, next_cmd, tx, rx, wire, missed,
                   prev_pack_no, e2e, ser, products, event_log, vmc_status,
                   parsing, codec>>

\* time.sleep(0.1): the pass has taken d poll intervals.
WaitSleep(d) ==
    /\ wait.pc = "sleep"
    /\ wait' = [wait EXCEPT !.pc = "check", !.elapsed = @ + d]
    /\ UNCHANGED <<command_queue, current_local_pack_no, pending_action_id,
                   pending_action_type, pc, next_cmd, tx, rx, wire, missed,
                   prev_pack_no, e2e, ser, products, event_log, vmc_status,
                   parsing, codec>>

\* The while condition is false: return "TIMEOUT", None.
WaitTimesOut ==
    /\ wait.pc = "check"
    /\ wait.elapsed >= WaitTicks
    /\ wait' = [wait EXCEPT !.pc = "done", !.result = "TIMEOUT"]
    /\ UNCHANGED <<command_queue, current_local_pack_no, pending_action_id,
                   pending_action_type, pc, next_cmd, tx, rx, wire, missed,
                   prev_pack_no, e2e, ser, products, event_log, vmc_status,
                   parsing, codec>>

WaitStep ==
    \/ WaitQuery
    \/ \E d \in 1..MaxSleep : WaitSleep(d)
    \/ WaitTimesOut

\* One blocking request and the engine serving it.
NextWait ==
    \/ \E hex \in CommandHexes : BlockingEnqueue(hex)
    \/ WaitStep
    \/ PollDispatch
    \/ PollIdle
    \/ AckReceived
    \/ \E packet \in DataPackets \cup {POLL, NoPacket} : AckMissed(packet)
    \/ \E packet \in DataPackets : \E about \in AboutChoices(packet) :
          RecvData(packet, about)
    \/ \E packet \in DataPackets : RecvDataRaises(packet)
    \/ RecvStrayAck

\* The thread of the request is scheduled: a step it can take, it takes.
SpecWait == Init /\ [][NextWait]_vars /\ WF_vars(WaitStep)

\* ------------------------------------------------ the store on its own
\* get_next_command applied to every store of up to MaxRows rows.
MaxRows == 3

StoreRow(status) ==
    [NewRow(<<CMD_DISPENSE, 0, 10>>) EXCEPT
        !.status = status,
        !.assigned_pack_no = IF status = "PENDING" THEN NULL ELSE FIRST_PACK_NO]

InitStore ==
    \E n \in 0..MaxRows : \E st \in [1..n -> Statuses] :
        /\ command_queue = [i \in 1..n |-> StoreRow(st[i])]
        /\ current_local_pack_no = FIRST_PACK_NO
        /\ pending_action_id = NULL
        /\ pending_action_type = NULL
        /\ pc = "read"
        /\ next_cmd = NoCmd
        /\ tx = <<>>
        /\ rx = Rx(NULL, FALSE, FALSE)
        /\ wire = [i \in 1..n |-> {}]
        /\ missed = [i \in 1..n |-> 0]
        /\ prev_pack_no = NULL
        /\ e2e = NULL
        /\ ser = "open"
        /\ products = {}
        /\ event_log = <<>>
        /\ vmc_status = {}
        /\ parsing = NoParsing
    /\ parsing = NoParsing
        /\ wait = NoWait
        /\ codec = NoCodec

\* next_cmd = self.db.get_next_command()
Fetch ==
    /\ next_cmd = NoCmd
    /\ get_next_command(command_queue) # NULL
    /\ next_cmd' = Row(command_queue, get_next_command(command_queue))
    /\ UNCHANGED <<command_queue, current_local_pack_no, pending_action_id,
                   pending_action_type, pc, tx, rx, wire, missed, prev_pack_no,
                   e2e>>
    /\ UNCHANGED <<ser, products, event_log, vmc_status, parsing, wait, codec>>

SpecStore == InitStore /\ [][Fetch]_vars

\* ================================================================ claims
StatusOf(i) == command_queue[i].status
Sending == {i \in Ids : StatusOf(i) = "SENDING"}
Pending == {i \in Ids : StatusOf(i) = "PENDING"}
PackNos == 1..PACK_NO_MODULUS

\* C1: a command that was dispatched MAX_RETRIES (5) times without an ack is
\* FAILED with retry_count 5, and get_next_command does not return it; this
\* holds in every state that follows, whatever frames and enqueues come.
C1_RetryCeiling ==
    \A i \in Ids : missed[i] = MAX_RETRIES =>
        /\ StatusOf(i) = "FAILED"
        /\ command_queue[i].retry_count = MAX_RETRIES
        /\ get_next_command(command_queue) # i

\* A command failed by the ceiling, and a later command dispatched after it.
C1_Witness ==
    \E i, j \in Ids :
        /\ missed[i] = MAX_RETRIES
        /\ i < j
        /\ wire[j] # {}

\* C2: every frame sent for a command carries the pack number assigned at its
\* first dispatch, and the engine's pack number equals it while the command
\* is SENDING and right after its last retry has failed.
C2_IdempotentRetry ==
    \A i \in Ids :
        /\ wire[i] \subseteq {command_queue[i].assigned_pack_no}
        /\ StatusOf(i) = "SENDING" =>
              current_local_pack_no = command_queue[i].assigned_pack_no
        /\ (next_cmd.id = i /\ missed[i] = MAX_RETRIES) =>
              current_local_pack_no = command_queue[i].assigned_pack_no

\* A command retransmitted up to the ceiling.
C2_Witness ==
    \E i \in Ids :
        /\ missed[i] = MAX_RETRIES
        /\ next_cmd.id = i
        /\ wire[i] = {command_queue[i].assigned_pack_no}

\* C3: the engine's pack number, every assigned pack number and every pack
\* number sent in a frame is in 1..255, and the value after 255 is 1.
C3_PackNoRange ==
    /\ current_local_pack_no \in PackNos
    /\ \A i \in Ids :
          /\ StatusOf(i) # "PENDING" => command_queue[i].assigned_pack_no \in PackNos
          /\ wire[i] \subseteq PackNos
    /\ prev_pack_no = PACK_NO_MODULUS => current_local_pack_no = 1
    /\ (prev_pack_no # NULL /\ prev_pack_no # PACK_NO_MODULUS) =>
          current_local_pack_no = prev_pack_no + 1

\* The pack number has wrapped and a command was sent with the new value.
C3_Witness ==
    /\ prev_pack_no = PACK_NO_MODULUS
    /\ current_local_pack_no = 1
    /\ \E i \in Ids : wire[i] = {1}

\* C4: once a command is COMPLETED or FAILED no step changes its status.
C4_TerminalImmutable ==
    [][\A i \in Ids :
          StatusOf(i) \in Terminal => command_queue'[i].status = StatusOf(i)]_vars

\* C5: a selection-check or dispense-status frame the device emits for an
\* acknowledged, unfinished command is never recorded on another command.
C5_RecordedOnOwnCommand == ~rx.misrouted

\* C6: along the scenario enqueue dispense(10), POLL, ACK, selection-check
\* 0x01, dispense-status 0x01, dispense-status 0x02 the command is PENDING,
\* then SENDING with pack number 1 (frame FA FB 03 03 01 00 0A 0A), then ACKED
\* with the engine's pack number 2, then ACCEPTED, DISPENSING and COMPLETED.
C6_EndToEndDispense ==
    /\ e2e = 1 => Len(command_queue) = 1 /\ StatusOf(1) = "PENDING"
    /\ e2e = 2 => /\ StatusOf(1) = "SENDING"
                  /\ command_queue[1].assigned_pack_no = 1
                  /\ tx = <<250, 251, 3, 3, 1, 0, 10, 10>>
    /\ e2e = 3 => StatusOf(1) = "ACKED" /\ current_local_pack_no = 2
    /\ e2e = 4 => StatusOf(1) = "ACCEPTED"
    /\ e2e = 5 => StatusOf(1) = "DISPENSING"
    /\ e2e = 6 => StatusOf(1) = "COMPLETED" /\ current_local_pack_no = 2

\* The scenario has run to its end.
C6_Witness == e2e = Len(Scenario)

\* C7: get_next_command returns a SENDING command if there is one, else the
\* PENDING command with the smallest id, else nothing.
C7_Priority ==
    LET r == get_next_command(command_queue)
    IN  /\ Sending # {} => r \in Sending
        /\ (Sending = {} /\ Pending # {}) =>
              r \in Pending /\ \A j \in Pending : r <= j
        /\ (Sending = {} /\ Pending = {}) => r = NULL
        /\ next_cmd # NoCmd => next_cmd.id = r

\* A SENDING command was fetched although PENDING commands have smaller ids.
C7_Witness ==
    /\ next_cmd.id = 3
    /\ StatusOf(3) = "SENDING"
    /\ StatusOf(1) = "PENDING"
    /\ StatusOf(2) = "PENDING"

\* C8: at most one command is SENDING.
C8_AtMostOneSending == Cardinality(Sending) <= 1

\* A command waits for its retry while the request surface has enqueued
\* another one.
C8_Witness ==
    \E i, j \in Ids :
        /\ StatusOf(i) = "SENDING"
        /\ missed[i] >= 1
        /\ StatusOf(j) = "PENDING"
        /\ pc = "read"

\* A step in which run() reads the ACK of the command it has just written.
AckStep ==
    /\ pc = "ack"
    /\ pc' = "read"
    /\ command_queue'[next_cmd.id].status = "ACKED"

\* C9: the pack number advances to (n % 255) + 1 in a step that reads the ack
\* of the dispatched command, and no other step changes it.
C9_AdvanceOnlyOnAck ==
    [][IF AckStep
       THEN current_local_pack_no' = (current_local_pack_no % PACK_NO_MODULUS) + 1
       ELSE current_local_pack_no' = current_local_pack_no]_vars

\* One command was acknowledged, another failed at the retry ceiling.
C9_Witness ==
    /\ prev_pack_no = 1
    /\ current_local_pack_no = 2
    /\ \E i \in Ids : missed[i] = MAX_RETRIES

\* C10: the last data frame read was handed to parse_vmc_data and answered
\* with an ACK frame (frames on which the parser raises are left aside).
C10_DataFrameParsedAndAcked ==
    (rx.data /\ pc # "crashed") => (rx.parsed /\ tx = AckFrame)

\* C11: no frame read makes run() end with an error.
C11_LoopKeepsRunning == pc # "crashed"

\* C12: after the link is lost the engine opens it again.
C12_LinkRecovers == (ser = "lost") ~> (ser = "open")

\* What the parser records with a status it writes for a dispense command.
RecordedWith(status) ==
    CASE status = "ACCEPTED" ->
           {[rp |-> <<1, 1>>, cd |-> ParseDetails(CMD_SELECTION_CHECK, <<1, 1>>)]}
      [] status = "DISPENSING" ->
           {[rp |-> <<1, c>>, cd |-> ParseDetails(CMD_DISPENSE_STATUS, <<1, c>>)] :
              c \in {c \in DispenseCodes : IsIntermediate(c)}}
      [] status = "COMPLETED" ->
           {[rp |-> <<1, c>>, cd |-> ParseDetails(CMD_DISPENSE_STATUS, <<1, c>>)] :
              c \in {c \in DispenseCodes : IsSuccess(c)}}
      [] status = "FAILED" ->
           {[rp |-> <<1, c>>, cd |-> ParseDetails(CMD_SELECTION_CHECK, <<1, c>>)] :
              c \in SelectionCodes \ {1}}
           \cup
           {[rp |-> <<1, c>>, cd |-> ParseDetails(CMD_DISPENSE_STATUS, <<1, c>>)] :
              c \in {c \in DispenseCodes : ~IsIntermediate(c) /\ ~IsSuccess(c)}}
      [] OTHER -> {}

\* C13: in every state between two store transactions a row that is not
\* PENDING has an assigned pack number in 1..255, and its status, response
\* payload and completion details are those of one and the same transition:
\* all three of one parsed frame, or a status with no payload and no details.
C13_RowsWhole ==
    \A i \in Ids :
        LET r == command_queue[i]
        IN  /\ r.status # "PENDING" => r.assigned_pack_no \in PackNos
            /\ r.status = "PENDING" => r.assigned_pack_no = NULL
            /\ \/ /\ r.status \in {"PENDING", "SENDING", "ACKED", "FAILED"}
                  /\ r.response_payload = <<>>
                  /\ r.completion_details = <<>>
               \/ /\ r.response_payload # <<>>
                  /\ r.completion_details # <<>>
                  /\ [rp |-> r.response_payload[1], cd |-> r.completion_details[1]]
                        \in RecordedWith(r.status)

\* One command failed at the retry ceiling with nothing recorded, another
\* completed with the frame that completed it.
C13_Witness ==
    \E i, j \in Ids :
        /\ StatusOf(i) = "FAILED"
        /\ command_queue[i].response_payload = <<>>
        /\ missed[i] = MAX_RETRIES
        /\ StatusOf(j) = "COMPLETED"
        /\ command_queue[j].completion_details # <<>>

\* C14: the wait returns COMPLETED or FAILED only when it has read that
\* status, and then before the timeout; it returns nothing while the status
\* it read is not final and the timeout has not elapsed; every other return
\* is TIMEOUT; and a wait that has started ends, at the latest one pass of the
\* loop after the timeout.
C14_WaitOutcome ==
    /\ [](/\ wait.pc = "done" =>
               \/ /\ wait.result \in Terminal
                  /\ wait.observed = wait.result
                  /\ wait.elapsed < WaitTicks
               \/ /\ wait.result = "TIMEOUT"
                  /\ wait.observed \notin Terminal
                  /\ wait.elapsed >= WaitTicks
          /\ wait.pc # "done" => wait.result = "NONE"
          /\ wait.elapsed < WaitTicks + MaxSleep)
    /\ (wait.pc # "idle") ~> (wait.pc = "done")

\* The wait timed out on a command that was still being dispensed.
C14_Witness ==
    /\ wait.pc = "done"
    /\ wait.result = "TIMEOUT"
    /\ wait.observed = "DISPENSING"

\* The payload build_packet puts in the frame.
FinalPayload ==
    IF codec.cmd \in {CMD_POLL, CMD_ACK} THEN <<>>
    ELSE <<codec.pack_no>> \o codec.payload

\* C15: read_packet on the bytes of build_packet returns the opcode and the
\* final payload, and on these bytes with one bit flipped it returns no frame.
C15_RoundTrip ==
    (codec.stage = "read" /\ codec.stray = <<>>) =>
        IF codec.flip = <<>>
        THEN codec.packet = Packet(codec.cmd, FinalPayload)
        ELSE codec.packet = NoPacket

\* C16: a POLL or ACK frame is FA FB, opcode, 00, checksum; every other frame
\* is FA FB, opcode, 1 + len(payload), pack number, payload, checksum; the
\* checksum is the XOR of all bytes before it; opcode 03, payload 00 0A,
\* pack number 1 gives FA FB 03 03 01 00 0A 0A.
C16_BitExact ==
    codec.stage = "built" =>
        LET f == codec.frame
            n == Len(codec.payload)
        IN  /\ f[1] = 250 /\ f[2] = 251 /\ f[3] = codec.cmd
            /\ IF codec.cmd \in {65, 66}
               THEN Len(f) = 5 /\ f[4] = 0
               ELSE /\ Len(f) = n + 6
                    /\ f[4] = n + 1
                    /\ f[5] = codec.pack_no
                    /\ SubSeq(f, 6, n + 5) = codec.payload
            /\ f[Len(f)] = calculate_checksum(SubSeq(f, 1, Len(f) - 1))
            /\ codec.cmd = 65 => f = <<250, 251, 65, 0, 64>>
            /\ codec.cmd = 66 => f = <<250, 251, 66, 0, 67>>
            /\ (codec.cmd = 3 /\ codec.payload = <<0, 10>> /\ codec.pack_no = 1)
                  => f = <<250, 251, 3, 3, 1, 0, 10, 10>>

\* The frame of the checksum vector has been built.
C16_Witness ==
    /\ codec.stage = "built"
    /\ codec.cmd = 3 /\ codec.payload = <<0, 10>> /\ codec.pack_no = 1
    /\ codec.frame = <<250, 251, 3, 3, 1, 0, 10, 10>>

\* The ProductSlot a record of at least 11 bytes stands for.
SlotOf(b) ==
    [selection_id |-> 256 * b[1] + b[2],
     price |-> 16777216 * b[3] + 65536 * b[4] + 256 * b[5] + b[6],
     inventory |-> b[7],
     capacity |-> b[8],
     product_id |-> 256 * b[9] + b[10],
     status |-> b[11]]

\* C17: a step that parses a product-report frame changes no command row and
\* no pending context; if the record has at least 11 bytes the products table
\* afterwards holds the decoded slot as the only one of its selection id and
\* its other slots are those it held before; if the record is shorter the
\* table is unchanged. The vector decodes to selection 10, price 150,
\* inventory 5, capacity 10, product_id 7, status 0.
C17_ProductReport ==
    [][\A packet \in ReportPackets :
          RecvData(packet, NULL) =>
            /\ command_queue' = command_queue
            /\ pending_action_id' = pending_action_id
            /\ pending_action_type' = pending_action_type
            /\ IF Len(packet.payload) >= 12
               THEN LET slot == SlotOf(Tail(packet.payload))
                    IN  /\ products' =
                             {r \in products : r.selection_id # slot.selection_id}
                             \cup {slot}
                        /\ Tail(packet.payload) = ReportVector =>
                             slot = [selection_id |-> 10, price |-> 150,
                                     inventory |-> 5, capacity |-> 10,
                                     product_id |-> 7, status |-> 0]
               ELSE products' = products]_vars

\* The slot of selection 10 was inserted by one report and updated by another,
\* next to the slot of selection 266, while a command was pending.
C17_Witness ==
    /\ [selection_id |-> 10, price |-> 65536, inventory |-> 4, capacity |-> 10,
        product_id |-> 7, status |-> 1] \in products
    /\ [selection_id |-> 266, price |-> 150, inventory |-> 5, capacity |-> 10,
        product_id |-> 256, status |-> 0] \in products
    /\ Cardinality(products) = 2
    /\ pending_action_id = 1
    /\ StatusOf(1) = "ACKED"

\* PENDING -> SENDING -> ACKED -> {ACCEPTED | DISPENSING}* -> COMPLETED | FAILED,
\* and PENDING / SENDING -> FAILED.
Business == {"ACCEPTED", "DISPENSING"}
StatusEdges ==
    {<<"PENDING", "SENDING">>, <<"SENDING", "ACKED">>,
     <<"PENDING", "FAILED">>, <<"SENDING", "FAILED">>}
    \cup ({"ACKED"} \cup Business) \X (Business \cup Terminal)

\* C18: every change of a command's status is an edge of the status graph.
C18_StatusGraph ==
    [][\A i \in Ids :
          command_queue'[i].status # StatusOf(i) =>
              <<StatusOf(i), command_queue'[i].status>> \in StatusEdges]_vars

\* The command dispatched last: commands are dispatched in the order of their
\* ids, and one is not dispatched again once a later one has been.
Dispatched == {i \in Ids : wire[i] # {}}
LastDispatched ==
    IF Dispatched = {} THEN NULL
    ELSE CHOOSE i \in Dispatched : \A j \in Dispatched : j <= i

\* C19: while the command dispatched last is acknowledged and not resolved by
\* a terminal frame, the pending context is set to it.
C19_PendingKept ==
    (LastDispatched # NULL /\ Live(LastDispatched)) =>
        /\ pending_action_id = LastDispatched
        /\ pending_action_type = command_queue[LastDispatched].command_hex[1]

\* The read after the dispatch of next_cmd returned no POLL and no ACK, and no
\* frame has been read since.
AwaitingAck ==
    /\ pc = "read"
    /\ next_cmd.id # NULL
    /\ StatusOf(next_cmd.id) = "SENDING"
    /\ rx.kind \in {"none", "data"}
    /\ ~rx.parsed

\* C20: an ACK read after a dispatch and before the next POLL marks the
\* command ACKED and advances the pack number.
C20_AckBeforeNextPoll ==
    [][(AwaitingAck /\ rx'.kind = "ack") =>
          /\ command_queue'[next_cmd.id].status = "ACKED"
          /\ current_local_pack_no' = NextPackNo(current_local_pack_no)]_vars

\* C21: a generic return frame resolves the pending command when the
\* command's opcode is the frame's sub-command; otherwise it is logged and
\* changes no command.
C21_GenericReturn ==
    [][\A sub_cmd \in CorrelateSubCommands :
          RecvData(GenericReturn(sub_cmd), NULL) =>
            IF /\ pending_action_id # NULL
               /\ pending_action_type =
                    GenericSubCommand(DataBody(GenericReturn(sub_cmd).payload))
            THEN command_queue'[pending_action_id].status \in Terminal
            ELSE /\ command_queue' = command_queue
                 /\ Len(event_log') = Len(event_log) + 1]_vars

\* C22: a dispense-status frame read while the pending command is a
\* query-status, set-price or sync command changes no command row.
C22_MismatchUntouched ==
    [][\A c \in CorrelateDispenseCodes :
          (/\ RecvData(DispenseStatus(c), NULL)
           /\ pending_action_id # NULL
           /\ pending_action_type \in {81, 18, 49})
          => command_queue' = command_queue]_vars

\* C24: a selection-check frame read while a dispense command is pending
\* sets it to ACCEPTED on code 0x01 and to FAILED on every other code, and
\* records the frame with it; read with no pending command it changes no
\* command row.
C24_SelectionCheck ==
    [][\A c \in CorrelateSelectionCodes :
          (pc = "read" /\ parsing' = parsing /\ RecvData(SelectionCheck(c), NULL)) =>
            /\ (pending_action_id # NULL /\ pending_action_type = 3) =>
                  /\ command_queue'[pending_action_id].status =
                        (IF c = 1 THEN "ACCEPTED" ELSE "FAILED")
                  /\ command_queue'[pending_action_id].response_payload
                        = <<SelectionCheck(c).payload>>
            /\ pending_action_id = NULL => command_queue' = command_queue]_vars

\* A pending dispense was refused by a selection check with code 0x04.
C24_Witness ==
    /\ pending_action_id = 1
    /\ command_queue[1].command_hex[1] = 3
    /\ StatusOf(1) = "FAILED"
    /\ command_queue[1].response_payload = <<SelectionCheck(4).payload>>

\* C25: no status code is both intermediate and success, and a
\* dispense-status frame read while a dispense command is pending sets it to
\* DISPENSING on an intermediate code, to COMPLETED on a success code and to
\* FAILED on every other code.
C25_DispenseStatus ==
    /\ \A c \in 0..255 : ~(IsIntermediate(c) /\ IsSuccess(c))
    /\ [][\A c \in CorrelateDispenseCodes :
            (/\ pending_action_id # NULL
             /\ pending_action_type = 3
             /\ RecvData(DispenseStatus(c), NULL))
            => command_queue'[pending_action_id].status =
                 (IF c \in {1, 16, 17, 18, 19, 22, 25, 34, 35} THEN "DISPENSING"
                  ELSE IF c \in {2, 36} THEN "COMPLETED"
                  ELSE "FAILED")]_vars

\* A pending dispense went through DISPENSING and was completed by code 0x24.
C25_Witness ==
    /\ pending_action_id = 1
    /\ command_queue[1].command_hex[1] = 3
    /\ StatusOf(1) = "COMPLETED"
    /\ command_queue[1].response_payload = <<DispenseStatus(36).payload>>

\* The read that followed the last dispatch missed the ack: increment_retry
\* has raised the row's retry count above the one run() read at the dispatch.
LastAckMissed ==
    /\ next_cmd.id # NULL
    /\ command_queue[next_cmd.id].retry_count > next_cmd.retry_count

\* C23, as stated: while a command is SENDING no PENDING command is
\* dispatched or changes, and the dispatch that follows a missed ack sends
\* the same command again.
C23_SameAfterMissedAck ==
    [][/\ \A j \in Pending :
            Sending # {} => /\ command_queue'[j] = command_queue[j]
                            /\ wire'[j] = wire[j]
       /\ (pc = "read" /\ pc' = "ack" /\ LastAckMissed) =>
            next_cmd'.id = next_cmd.id]_vars

\* C23, corrected: while a command is SENDING, a dispatch sends that command
\* and no PENDING command is dispatched or changes, however many commands
\* have been enqueued; the dispatch that follows a missed ack sends the same
\* command again exactly when the command is still SENDING, and it is not
\* only when the missed ack was the fifth or a status frame has been recorded
\* on the command since.
C23_RetryNotStarved ==
    [][/\ \A j \in Pending :
            Sending # {} => /\ command_queue'[j] = command_queue[j]
                            /\ wire'[j] = wire[j]
       /\ (pc = "read" /\ pc' = "ack" /\ Sending # {}) =>
            /\ next_cmd'.id \in Sending
            /\ pending_action_id' \in Sending
       /\ (pc = "read" /\ pc' = "ack" /\ LastAckMissed) =>
            /\ (next_cmd'.id = next_cmd.id) <=> (StatusOf(next_cmd.id) = "SENDING")
            /\ StatusOf(next_cmd.id) # "SENDING" =>
                  \/ command_queue[next_cmd.id].retry_count = MAX_RETRIES
                  \/ command_queue[next_cmd.id].response_payload # <<>>]_vars

\* The first command is written again after two missed acks while a second
\* command waits PENDING.
C23_Witness ==
    /\ pc = "ack"
    /\ next_cmd.id = 1
    /\ missed[1] = 2
    /\ StatusOf(1) = "SENDING"
    /\ Len(command_queue) = 2
    /\ StatusOf(2) = "PENDING"
    /\ wire[2] = {}

\* C26: read_packet on one stray byte followed by the bytes of build_packet
\* returns the frame, whatever the stray byte is.
C26_StrayByte ==
    (codec.stage = "read" /\ codec.stray # <<>>) =>
        codec.packet = Packet(codec.cmd, FinalPayload)

\* C27: a command and the command enqueued next, once both have been
\* dispatched, have no pack number on the wire in common.
C27_FreshPackNo ==
    \A i \in Ids : \A j \in Ids :
        (j = i + 1 /\ wire[i] # {} /\ wire[j] # {}) => wire[i] \cap wire[j] = {}

Dispatchable(i) == i \in Ids /\ StatusOf(i) \in {"PENDING", "SENDING"}

\* C28: while POLL frames keep arriving, every enqueued command leaves the
\* statuses PENDING and SENDING and does not come back to them; a command is
\* dispatched only after fewer than 5 missed acks, hence at most 5 times;
\* and a command is first dispatched only after every command enqueued
\* before it.
C28_QueueProgress ==
    /\ [][/\ \A i \in Ids : ~Dispatchable(i) => ~Dispatchable(i)'
          /\ (pc = "read" /\ pc' = "ack") =>
                /\ Dispatchable(next_cmd'.id)
                /\ missed[next_cmd'.id] < MAX_RETRIES
                /\ missed[next_cmd'.id] = command_queue[next_cmd'.id].retry_count
                /\ \A j \in Ids : j < next_cmd'.id => wire[j] # {}]_vars
    /\ \A i \in 1..MaxCmds : Dispatchable(i) ~> (i \in Ids /\ ~Dispatchable(i))

====
